---- MODULE Spec2Model ----
(***************************************************************************)
(* kedro.io.DataCatalog (src/kedro/io/data_catalog.py) and the in-memory   *)
(* data set it wraps raw values in (src/kedro/io/memory_data_set.py), as a *)
(* state machine over a small Python heap.                                 *)
(*                                                                         *)
(* Objects live in heaps indexed by references, so that "a copy" and "the  *)
(* same object" are different states: a catalog's fields hold references   *)
(* to its dict of data sets, its dict of transformer lists, its list of    *)
(* default transformers, its frozen view and its journal.                  *)
(*                                                                         *)
(* An object is named after the slot it is created for: the dict built by  *)
(* the constructor of catalog c is dict c, the list built for              *)
(* c._transformers[n] is list <<c, n>>, the list built for                 *)
(* c._default_transformers is list <<c, "default">>.  No code path of      *)
(* DataCatalog stores a reference to one of these objects anywhere else,   *)
(* so when a slot is assigned a new object the old one is unreachable.     *)
(***************************************************************************)
EXTENDS Naturals, Sequences, FiniteSets, TLC

None == "None"

\* memory_data_set.py:40, the marker of a MemoryDataSet that holds nothing
_EMPTY == "_EMPTY"

----------------------------------------------------------------------------
(* The universe the calls draw their arguments from.                       *)

Catalogs == {"c1", "c2"}
Names == {"a", "b"}

\* Data set instances the caller constructs and passes in: two MemoryDataSet
\* and one versioned data set (an AbstractVersionedDataSet such as
\* PickleLocalDataSet with a Version).
MemoryInstances == {"m1", "m2"}
VersionedInstances == {"p1"}
\* MemoryDataSet instances add_feed_dict constructs, in order of construction
MaxFeed == 1
FeedName == <<"f1", "f2", "f3", "f4">>
FeedInstances == {FeedName[i] : i \in 1..MaxFeed}
\* An instance of a data set class that does not define _exists
UncheckedInstances == {"u1"}
\* Data set instances from_config constructs, in order of construction
ConfigInstances == <<"k1", "k2">>
Instances ==
    MemoryInstances \cup VersionedInstances \cup FeedInstances
       \cup UncheckedInstances \cup {ConfigInstances[i] : i \in DOMAIN ConfigInstances}
UserInstances == MemoryInstances \cup VersionedInstances

\* Plain values a caller saves or feeds
Values == {"x", "y"}

\* t1, t2: instances of the base AbstractTransformer (they call through);
\* tu: a user-defined transformer, free to call through, to return without
\* calling through, or to raise.
Transformers == {"t1", "t2", "tu"}
Behaviours == {"call", "skip", "raise"}
\* an object that is not an AbstractTransformer
NotATransformer == "obj"

\* The save version of the versioned data set
Versions == {"ver"}

\* The one Journal object a catalog may be given
TheJournal == "journal"

ListRefs == Catalogs \X (Names \cup {"default"})
ViewRefs == 1..(Cardinality(Catalogs) + 1)

\* Bound of the exploration: calls per run
MaxCalls == 3

VARIABLES
    catalog,     \* catalog -> its fields (references), or NoCatalog
    dictObj,     \* dict reference -> the ordered dict name -> data set instance
    mapObj,      \* dict reference -> the ordered dict name -> list reference
    listObj,     \* list reference -> the list of transformers
    viewObj,     \* view reference -> the attributes of a _FrozenDatasets
    dataSet,     \* data set instance -> its state
    nfeed,       \* number of MemoryDataSet instances add_feed_dict constructed
    journalObj,  \* the entries of the Journal, oldest first
    held,        \* the view a caller got from catalog.datasets and keeps
    last,        \* the last call: what was called and how it ended
    replaced,    \* catalog, name -> the instance last displaced there by another
    composed,    \* catalog, name -> the callable the last load or save composed
    budget       \* calls left

heapvars == <<catalog, dictObj, mapObj, listObj, viewObj, dataSet, nfeed, journalObj, held>>
vars == <<catalog, dictObj, mapObj, listObj, viewObj, dataSet, nfeed, journalObj, held,
          last, replaced, composed, budget>>

\* The heap as one value, threaded through the operations
Heap ==
    [catalog |-> catalog, dictObj |-> dictObj, mapObj |-> mapObj,
     listObj |-> listObj, viewObj |-> viewObj, dataSet |-> dataSet,
     nfeed |-> nfeed, journalObj |-> journalObj, held |-> held]

\* What AbstractDataSet.from_config was given to construct a data set, for a
\* data set that was constructed otherwise
NoConfig ==
    [name |-> None, type |-> None, credentials |-> None,
     load_version |-> None, save_version |-> None]

\* The fields of a catalog that has not been constructed
NoView == 0
NoList == <<None, None>>
NoCatalog ==
    [_data_sets |-> None, datasets |-> NoView, _transformers |-> None,
     _default_transformers |-> NoList, _journal |-> None]

Constructed(h, c) == h.catalog[c]._data_sets # None

\* How a call ends: the heap it leaves, the exception it raised (None: it
\* returned), the value it returned, and the callables entered on the way.
Return(h, value) == [h |-> h, err |-> None, ret |-> value, trace |-> <<>>]
Raise(h, exception) == [h |-> h, err |-> exception, ret |-> None, trace |-> <<>>]

----------------------------------------------------------------------------
(* Python's dict, insertion ordered: a sequence of [k, v], one per key.    *)

DictKeys(d) == [i \in DOMAIN d |-> d[i].k]
DictKeySet(d) == {d[i].k : i \in DOMAIN d}
DictHas(d, key) == key \in DictKeySet(d)
DictGet(d, key) ==
    IF DictHas(d, key)
    THEN d[CHOOSE i \in DOMAIN d : d[i].k = key].v
    ELSE None
\* d[key] = value: an existing key keeps its place, a new key goes last
DictSet(d, key, value) ==
    IF DictHas(d, key)
    THEN [i \in DOMAIN d |-> IF d[i].k = key THEN [k |-> key, v |-> value] ELSE d[i]]
    ELSE Append(d, [k |-> key, v |-> value])

RECURSIVE DictFromSeq(_)
\* a dict literal / dict(items): later entries for a key overwrite earlier ones
DictFromSeq(items) ==
    IF items = <<>> THEN <<>>
    ELSE LET n == Len(items)
         IN DictSet(DictFromSeq(SubSeq(items, 1, n - 1)), items[n].k, items[n].v)

----------------------------------------------------------------------------
(* Object construction.                                                    *)

\* list(src) that hands back src itself
list_alias(h, loc, src) == [h |-> h, ref |-> src]

\* list(src): a new list object, at loc, with the items of list src.
\* Returns the heap and the reference to the new list.
list_(h, loc, src) ==
    [h |-> [h EXCEPT !.listObj[loc] = h.listObj[src]], ref |-> loc]

\* The references to views held outside catalog self: by the other catalogs
\* and by the caller
ViewsHeldElsewhere(h, self) ==
    {h.catalog[c].datasets : c \in Catalogs \ {self}} \cup {h.held}

\* self.datasets updated in place, once there is one
_FrozenDatasets_in_place(h, self) ==
    LET d == h.dictObj[h.catalog[self]._data_sets]
        v == IF h.catalog[self].datasets # NoView
             THEN h.catalog[self].datasets
             ELSE CHOOSE r \in ViewRefs :
                     /\ r \notin ViewsHeldElsewhere(h, self)
                     /\ \A q \in ViewRefs : q < r => q \in ViewsHeldElsewhere(h, self)
    IN [h EXCEPT !.viewObj[v] = [n \in Names |-> DictGet(d, n)],
                 !.catalog[self].datasets = v]

\* _FrozenDatasets(self._data_sets), assigned to self.datasets: a new view
\* object whose attributes are the entries the dict has now.
_FrozenDatasets(h, self) ==
    LET d == h.dictObj[h.catalog[self]._data_sets]
        v == CHOOSE r \in ViewRefs :
                /\ r \notin ViewsHeldElsewhere(h, self)
                /\ \A q \in ViewRefs : q < r => q \in ViewsHeldElsewhere(h, self)
    IN [h EXCEPT !.viewObj[v] = [n \in Names |-> DictGet(d, n)],
                 !.catalog[self].datasets = v]

\* The messages of _FrozenDatasets.__setattr__
ChangeThroughConfiguration ==
    "Operation not allowed! Please change datasets through configuration."
UseAdd == "Operation not allowed! Please use DataCatalog.add() instead."

\* raise exception(msg)
RaiseWith(h, exception, msg) ==
    [h |-> h, err |-> exception, ret |-> None, trace |-> <<>>, msg |-> msg]

\* raise exception(msg.format(about))
RaiseAbout(h, exception, msg, about) ==
    [h |-> h, err |-> exception, ret |-> None, trace |-> <<>>, msg |-> msg,
     about |-> about]

\* __setattr__ that lets a new attribute through
__setattr___new_allowed(h, self, key, value) ==
    IF h.viewObj[self][key] # None
    THEN RaiseWith(h, "AttributeError", ChangeThroughConfiguration)
    ELSE Return([h EXCEPT !.viewObj[self][key] = value], None)

\* _FrozenDatasets.__setattr__ on the view self
__setattr__(h, self, key, value) ==
    IF h.viewObj[self][key] # None
    THEN RaiseWith(h, "AttributeError", ChangeThroughConfiguration)
    ELSE RaiseWith(h, "AttributeError", UseAdd)

----------------------------------------------------------------------------
(* DataCatalog: the registry.                                              *)

\* name in self._data_sets
Registered(h, self, name) ==
    DictHas(h.dictObj[h.catalog[self]._data_sets], name)

\* self._data_sets[name]
Instance(h, self, name) ==
    DictGet(h.dictObj[h.catalog[self]._data_sets], name)

\* self._transformers[name], the reference
TransformerList(h, self, name) ==
    DictGet(h.mapObj[h.catalog[self]._transformers], name)

\* add that keeps the instance a name already has (dict.setdefault)
add_setdefault(h, self, data_set_name, data_set, replace) ==
    IF Registered(h, self, data_set_name) /\ ~replace
    THEN Raise(h, "DataSetAlreadyExistsError")
    ELSE LET h1 == IF Registered(h, self, data_set_name) THEN h
                   ELSE [h EXCEPT !.dictObj[h.catalog[self]._data_sets] =
                                      DictSet(@, data_set_name, data_set)]
             l  == list_(h1, <<self, data_set_name>>,
                         h1.catalog[self]._default_transformers)
             h2 == [l.h EXCEPT !.mapObj[h.catalog[self]._transformers] =
                                  DictSet(@, data_set_name, l.ref)]
         IN Return(_FrozenDatasets(h2, self), None)

\* add that registers the data set before it checks the name
add_then_check(h, self, data_set_name, data_set, replace) ==
    LET h1 == [h EXCEPT !.dictObj[h.catalog[self]._data_sets] =
                            DictSet(@, data_set_name, data_set)]
    IN IF Registered(h, self, data_set_name) /\ ~replace
       THEN Raise(h1, "DataSetAlreadyExistsError")
       ELSE LET l  == list_(h1, <<self, data_set_name>>,
                            h1.catalog[self]._default_transformers)
                h2 == [l.h EXCEPT !.mapObj[h.catalog[self]._transformers] =
                                     DictSet(@, data_set_name, l.ref)]
            IN Return(_FrozenDatasets(h2, self), None)

\* add that leaves the frozen view as it is
add_no_rebuild(h, self, data_set_name, data_set, replace) ==
    IF Registered(h, self, data_set_name) /\ ~replace
    THEN Raise(h, "DataSetAlreadyExistsError")
    ELSE LET h1 == [h EXCEPT !.dictObj[h.catalog[self]._data_sets] =
                                 DictSet(@, data_set_name, data_set)]
             l  == list_(h1, <<self, data_set_name>>,
                         h1.catalog[self]._default_transformers)
             h2 == [l.h EXCEPT !.mapObj[h.catalog[self]._transformers] =
                                  DictSet(@, data_set_name, l.ref)]
         IN Return(h2, None)

\* add that leaves a registered name the transformer list it has
add_keep_transformers(h, self, data_set_name, data_set, replace) ==
    IF Registered(h, self, data_set_name) /\ ~replace
    THEN Raise(h, "DataSetAlreadyExistsError")
    ELSE LET h1 == [h EXCEPT !.dictObj[h.catalog[self]._data_sets] =
                                 DictSet(@, data_set_name, data_set)]
             l  == list_(h1, <<self, data_set_name>>,
                         h1.catalog[self]._default_transformers)
             h2 == IF Registered(h, self, data_set_name) THEN h1
                   ELSE [l.h EXCEPT !.mapObj[h.catalog[self]._transformers] =
                                        DictSet(@, data_set_name, l.ref)]
         IN Return(_FrozenDatasets(h2, self), None)

add(h, self, data_set_name, data_set, replace) ==
    IF Registered(h, self, data_set_name) /\ ~replace
    THEN Raise(h, "DataSetAlreadyExistsError")
    ELSE LET h1 == [h EXCEPT !.dictObj[h.catalog[self]._data_sets] =
                                 DictSet(@, data_set_name, data_set)]
             l  == list_(h1, <<self, data_set_name>>,
                         h1.catalog[self]._default_transformers)
             h2 == [l.h EXCEPT !.mapObj[h.catalog[self]._transformers] =
                                  DictSet(@, data_set_name, l.ref)]
         IN Return(_FrozenDatasets(h2, self), None)

RECURSIVE add_all_atomic(_, _, _, _)
\* add_all that checks every name before it adds the first
add_all_atomic(h, self, data_sets, replace) ==
    IF data_sets = <<>> THEN Return(h, None)
    ELSE IF ~replace /\ \E i \in DOMAIN data_sets : Registered(h, self, data_sets[i].k)
    THEN Raise(h, "DataSetAlreadyExistsError")
    ELSE LET r == add(h, self, data_sets[1].k, data_sets[1].v, replace)
         IN IF r.err # None THEN r
            ELSE add_all_atomic(r.h, self, Tail(data_sets), replace)

RECURSIVE add_all(_, _, _, _)
\* data_sets: the mapping's items in iteration order
add_all(h, self, data_sets, replace) ==
    IF data_sets = <<>> THEN Return(h, None)
    ELSE LET r == add(h, self, data_sets[1].k, data_sets[1].v, replace)
         IN IF r.err # None THEN r
            ELSE add_all(r.h, self, Tail(data_sets), replace)

\* MemoryDataSet._save that keeps the data it already holds
MemoryDataSet_save_once(state, data) ==
    IF state._data = _EMPTY THEN [state EXCEPT !._data = data] ELSE state

\* MemoryDataSet._save
MemoryDataSet_save(state, data) == [state EXCEPT !._data = data]

\* MemoryDataSet(data=value): the next instance, holding the value
MemoryDataSet(h, value) ==
    LET d == FeedName[h.nfeed + 1]
    IN [h |-> [h EXCEPT !.nfeed = @ + 1,
                        !.dataSet[d] = MemoryDataSet_save([@ EXCEPT !._data = _EMPTY], value)],
        ref |-> d]

RECURSIVE add_feed_dict_replacing(_, _, _, _)
\* add_feed_dict that adds with replace=True whatever it is told
add_feed_dict_replacing(h, self, feed_dict, replace) ==
    IF feed_dict = <<>> THEN Return(h, None)
    ELSE LET item == feed_dict[1]
             m == IF item.v \in Instances
                  THEN [h |-> h, ref |-> item.v]
                  ELSE MemoryDataSet(h, item.v)
             r == add(m.h, self, item.k, m.ref, TRUE)
         IN IF r.err # None THEN r
            ELSE add_feed_dict_replacing(r.h, self, Tail(feed_dict), replace)

RECURSIVE add_feed_dict(_, _, _, _)
\* feed_dict: the mapping's items in iteration order
add_feed_dict(h, self, feed_dict, replace) ==
    IF feed_dict = <<>> THEN Return(h, None)
    ELSE LET item == feed_dict[1]
             m == IF item.v \in Instances
                  THEN [h |-> h, ref |-> item.v]
                  ELSE MemoryDataSet(h, item.v)
             r == add(m.h, self, item.k, m.ref, replace)
         IN IF r.err # None THEN r
            ELSE add_feed_dict(r.h, self, Tail(feed_dict), replace)

RECURSIVE _normalize(_, _, _)
\* the loop of _check_and_normalize_transformers over the missing names
_normalize(h, self, missing) ==
    IF missing = <<>> THEN h
    ELSE LET l == list_(h, <<self, missing[1]>>, h.catalog[self]._default_transformers)
         IN _normalize([l.h EXCEPT !.mapObj[h.catalog[self]._transformers] =
                                      DictSet(@, missing[1], l.ref)],
                       self, Tail(missing))

\* _check_and_normalize_transformers without its check for excess names
_normalize_only(h, self, order) ==
    LET data_sets == DictKeySet(h.dictObj[h.catalog[self]._data_sets])
        transformers == DictKeySet(h.mapObj[h.catalog[self]._transformers])
        missing_transformers == data_sets \ transformers
    IN Return(_normalize(h, self,
                         SelectSeq(order, LAMBDA n : n \in missing_transformers)),
              None)

\* order: the order in which the set of missing names is iterated
_check_and_normalize_transformers(h, self, order) ==
    LET data_sets == DictKeySet(h.dictObj[h.catalog[self]._data_sets])
        transformers == DictKeySet(h.mapObj[h.catalog[self]._transformers])
        excess_transformers == transformers \ data_sets
        missing_transformers == data_sets \ transformers
    IN IF excess_transformers # {}
       THEN Raise(h, "DataSetNotFoundError")
       ELSE Return(_normalize(h, self,
                              SelectSeq(order, LAMBDA n : n \in missing_transformers)),
                   None)

RECURSIVE _copy_lists(_, _, _)
\* {k: list(v) for k, v in transformers.items()}: transformers holds the
\* items, each v the items of the list passed
_copy_lists(h, self, transformers) ==
    IF transformers = <<>> THEN h
    ELSE LET k == transformers[1].k
         IN _copy_lists([h EXCEPT !.listObj[<<self, k>>] = transformers[1].v,
                                  !.mapObj[self] = DictSet(@, k, <<self, k>>)],
                        self, Tail(transformers))

\* DataCatalog.__init__, constructing catalog self.  The dicts and lists
\* passed are given by their items; order is the iteration order of the set
\* of names without transformers.
__init__(h, self, data_sets, feed_dict, transformers, default_transformers, journal, order) ==
    LET h1 == [h EXCEPT !.dictObj[self] = DictFromSeq(data_sets),
                        !.catalog[self]._data_sets = self]
        h2 == _FrozenDatasets(h1, self)
        h3 == _copy_lists([h2 EXCEPT !.mapObj[self] = <<>>,
                                     !.catalog[self]._transformers = self],
                          self, transformers)
        h4 == [h3 EXCEPT !.listObj[<<self, "default">>] = default_transformers,
                         !.catalog[self]._default_transformers = <<self, "default">>]
        r5 == _check_and_normalize_transformers(h4, self, order)
        h6 == [r5.h EXCEPT !.catalog[self]._journal = journal]
    IN IF r5.err # None THEN r5
       ELSE IF feed_dict # <<>> THEN add_feed_dict(h6, self, feed_dict, FALSE)
       ELSE Return(h6, None)

\* The messages of from_config and _get_credentials
TypeIsMissing == "type is missing from DataSet conf configuration"
UnableToFindCredentials == "Unable to find credentials"

\* _get_credentials(credentials_name, credentials)
_get_credentials(h, credentials_name, credentials) ==
    IF DictHas(credentials, credentials_name)
    THEN Return(h, DictGet(credentials, credentials_name))
    ELSE RaiseAbout(h, "KeyError", UnableToFindCredentials, credentials_name)

\* The number of data sets from_config has constructed
NConfig(h) ==
    Cardinality({i \in DOMAIN ConfigInstances :
                    h.dataSet[ConfigInstances[i]].config.name # None})

\* AbstractDataSet.from_config(name, config, load_version, save_version):
\* the next instance, keeping what it was given
DataSet_from_config(h, name, config, load_version, save_version) ==
    LET d == ConfigInstances[NConfig(h) + 1]
    IN [h |-> [h EXCEPT !.dataSet[d].config =
                    [name |-> name, type |-> config.type,
                     credentials |-> config.credentials,
                     load_version |-> load_version, save_version |-> save_version]],
        ref |-> d]

RECURSIVE _from_config_skipping(_, _, _, _, _, _)
\* the loop of from_config that passes over an entry without a type
_from_config_skipping(h, conf, credentials, load_versions, save_version, data_sets) ==
    IF conf = <<>> THEN Return(h, data_sets)
    ELSE LET ds_name == conf[1].k
             ds_config == conf[1].v
             c == IF ds_config.credentials # None
                  THEN _get_credentials(h, ds_config.credentials, credentials)
                  ELSE Return(h, None)
             d == DataSet_from_config(h, ds_name,
                                      [ds_config EXCEPT !.credentials = c.ret],
                                      DictGet(load_versions, ds_name), save_version)
         IN IF ds_config.type = None
            THEN _from_config_skipping(h, Tail(conf), credentials, load_versions,
                                       save_version, data_sets)
            ELSE IF c.err # None THEN c
            ELSE _from_config_skipping(d.h, Tail(conf), credentials, load_versions,
                                       save_version, DictSet(data_sets, ds_name, d.ref))

RECURSIVE _from_config_loop(_, _, _, _, _, _)
\* the loop of from_config over catalog.items(); a ds_config is given by its
\* type and its credentials, None for a key it does not have
_from_config_loop(h, conf, credentials, load_versions, save_version, data_sets) ==
    IF conf = <<>> THEN Return(h, data_sets)
    ELSE LET ds_name == conf[1].k
             ds_config == conf[1].v
             c == IF ds_config.credentials # None
                  THEN _get_credentials(h, ds_config.credentials, credentials)
                  ELSE Return(h, None)
             d == DataSet_from_config(h, ds_name,
                                      [ds_config EXCEPT !.credentials = c.ret],
                                      DictGet(load_versions, ds_name), save_version)
         IN IF ds_config.type = None
            THEN RaiseAbout(h, "DataSetError", TypeIsMissing, ds_name)
            ELSE IF c.err # None THEN c
            ELSE _from_config_loop(d.h, Tail(conf), credentials, load_versions,
                                   save_version, DictSet(data_sets, ds_name, d.ref))

\* journal.run_id
run_id(journal) == "run"

\* from_config that leaves the journal's run_id aside
from_config_timestamp(h, self, conf, credentials, load_versions, save_version, journal, timestamp, order) ==
    LET version == IF save_version # None THEN save_version ELSE timestamp
        r == _from_config_loop(h, conf, credentials, load_versions, version, <<>>)
    IN IF r.err # None THEN r
       ELSE __init__(r.h, self, r.ret, <<>>, <<>>, <<>>, journal, order)

\* DataCatalog.from_config, the conf it returns being self; timestamp is
\* what generate_timestamp() returns when it is called
from_config(h, self, conf, credentials, load_versions, save_version, journal, timestamp, order) ==
    LET id == IF journal # None THEN run_id(journal) ELSE None
        version == IF save_version # None THEN save_version
                   ELSE IF id # None THEN id
                   ELSE timestamp
        r == _from_config_loop(h, conf, credentials, load_versions, version, <<>>)
    IN IF r.err # None THEN r
       ELSE __init__(r.h, self, r.ret, <<>>, <<>>, <<>>, journal, order)

\* The items of the dict of transformer lists, each list by its items
TransformerItems(h, self) ==
    LET m == h.mapObj[h.catalog[self]._transformers]
    IN [i \in DOMAIN m |-> [k |-> m[i].k, v |-> h.listObj[m[i].v]]]

\* shallow_copy whose catalog keeps the dict of data sets it is given
shallow_copy_same_dict(h, self, new_, order) ==
    LET r == __init__(h, new_,
                      h.dictObj[h.catalog[self]._data_sets],
                      <<>>,
                      TransformerItems(h, self),
                      h.listObj[h.catalog[self]._default_transformers],
                      h.catalog[self]._journal,
                      order)
    IN [r EXCEPT !.h.catalog[new_]._data_sets = h.catalog[self]._data_sets]

\* shallow_copy whose catalog keeps the dict of transformer lists and the
\* list of default transformers it is given
shallow_copy_same_lists(h, self, new_, order) ==
    LET r == __init__(h, new_,
                      h.dictObj[h.catalog[self]._data_sets],
                      <<>>,
                      TransformerItems(h, self),
                      h.listObj[h.catalog[self]._default_transformers],
                      h.catalog[self]._journal,
                      order)
    IN [r EXCEPT !.h.catalog[new_]._transformers = h.catalog[self]._transformers,
                 !.h.catalog[new_]._default_transformers =
                      h.catalog[self]._default_transformers]

\* shallow_copy whose catalog is given no journal
shallow_copy_no_journal(h, self, new_, order) ==
    __init__(h, new_,
             h.dictObj[h.catalog[self]._data_sets],
             <<>>,
             TransformerItems(h, self),
             h.listObj[h.catalog[self]._default_transformers],
             None,
             order)

\* DataCatalog.shallow_copy: the catalog it returns is new_
shallow_copy(h, self, new_, order) ==
    __init__(h, new_,
             h.dictObj[h.catalog[self]._data_sets],
             <<>>,
             TransformerItems(h, self),
             h.listObj[h.catalog[self]._default_transformers],
             h.catalog[self]._journal,
             order)

RECURSIVE _append_each_checked(_, _, _, _)
\* the loop of add_transformer that appends once every name is found registered
_append_each_checked(h, self, transformer, data_set_names) ==
    IF data_set_names = <<>> THEN Return(h, None)
    ELSE IF \E i \in DOMAIN data_set_names : ~Registered(h, self, data_set_names[i])
    THEN Raise(h, "DataSetNotFoundError")
    ELSE LET data_set_name == data_set_names[1]
         IN IF ~DictHas(h.mapObj[h.catalog[self]._transformers], data_set_name)
            THEN Raise(h, "KeyError")
            ELSE _append_each_checked(
                    [h EXCEPT !.listObj[TransformerList(h, self, data_set_name)] =
                                  Append(@, transformer)],
                    self, transformer, Tail(data_set_names))

RECURSIVE _append_each(_, _, _, _)
\* the loop of add_transformer over data_set_names
_append_each(h, self, transformer, data_set_names) ==
    IF data_set_names = <<>> THEN Return(h, None)
    ELSE LET data_set_name == data_set_names[1]
         IN IF ~Registered(h, self, data_set_name)
            THEN Raise(h, "DataSetNotFoundError")
            ELSE IF ~DictHas(h.mapObj[h.catalog[self]._transformers], data_set_name)
            THEN Raise(h, "KeyError")
            ELSE _append_each(
                    [h EXCEPT !.listObj[TransformerList(h, self, data_set_name)] =
                                  Append(@, transformer)],
                    self, transformer, Tail(data_set_names))

\* data_set_names as the caller passes it: None, one string, or an iterable
NoNames == [is |-> "None", names |-> <<>>]
OneName(n) == [is |-> "str", names |-> <<n>>]
SomeNames(s) == [is |-> "iterable", names |-> s]

\* add_transformer that leaves the defaults alone
add_transformer_no_default(h, self, transformer, data_set_names) ==
    IF transformer \notin Transformers
    THEN Raise(h, "TypeError")
    ELSE IF data_set_names.is = "None"
    THEN _append_each(h, self, transformer,
                      DictKeys(h.mapObj[h.catalog[self]._transformers]))
    ELSE _append_each(h, self, transformer, data_set_names.names)

\* add_transformer that appends to the defaults whatever the names
add_transformer_always_default(h, self, transformer, data_set_names) ==
    IF transformer \notin Transformers
    THEN Raise(h, "TypeError")
    ELSE LET h1 == [h EXCEPT !.listObj[h.catalog[self]._default_transformers] =
                                 Append(@, transformer)]
         IN IF data_set_names.is = "None"
            THEN _append_each(h1, self, transformer,
                              DictKeys(h1.mapObj[h1.catalog[self]._transformers]))
            ELSE _append_each(h1, self, transformer, data_set_names.names)

\* add_transformer that checks the transformer's type after it has appended
add_transformer_check_late(h, self, transformer, data_set_names) ==
    LET r == IF data_set_names.is = "None"
             THEN LET h1 == [h EXCEPT !.listObj[h.catalog[self]._default_transformers] =
                                          Append(@, transformer)]
                  IN _append_each(h1, self, transformer,
                                  DictKeys(h1.mapObj[h1.catalog[self]._transformers]))
             ELSE _append_each(h, self, transformer, data_set_names.names)
    IN IF transformer \notin Transformers THEN Raise(r.h, "TypeError") ELSE r

add_transformer(h, self, transformer, data_set_names) ==
    IF transformer \notin Transformers
    THEN Raise(h, "TypeError")
    ELSE IF data_set_names.is = "None"
    THEN LET h1 == [h EXCEPT !.listObj[h.catalog[self]._default_transformers] =
                                 Append(@, transformer)]
         IN _append_each(h1, self, transformer,
                         DictKeys(h1.mapObj[h1.catalog[self]._transformers]))
    ELSE _append_each(h, self, transformer, data_set_names.names)

\* list that returns the names sorted
list_sorted(h, self) ==
    SelectSeq(<<"a", "b">>,
              LAMBDA n : n \in DictKeySet(h.dictObj[h.catalog[self]._data_sets]))

\* DataCatalog.list
list(h, self) == DictKeys(h.dictObj[h.catalog[self]._data_sets])

----------------------------------------------------------------------------
(* Data sets, transformers and the journal, as the catalog calls them.     *)

IsMemory(d) == d \in MemoryInstances \cup FeedInstances

\* copy.deepcopy of a plain value: an equal value
deepcopy(value) == value

\* MemoryDataSet._load
MemoryDataSet_load(state) ==
    IF state._data = _EMPTY
    THEN [err |-> "DataSetError", ret |-> None]
    ELSE [err |-> None, ret |-> deepcopy(state._data)]

\* MemoryDataSet._exists
MemoryDataSet_exists(state) == state._data # _EMPTY

\* MemoryDataSet._release that keeps the data
MemoryDataSet_release_keep(state) == state

\* MemoryDataSet._release
MemoryDataSet_release(state) == [state EXCEPT !._data = _EMPTY]

\* data_set.load()
DataSet_load(h, d) ==
    IF IsMemory(d)
    THEN LET r == MemoryDataSet_load(h.dataSet[d])
         IN [h |-> h, err |-> r.err, ret |-> r.ret, trace |-> <<d>>]
    ELSE IF h.dataSet[d]._data = _EMPTY
    THEN [h |-> h, err |-> "DataSetError", ret |-> None, trace |-> <<d>>]
    ELSE [h |-> [h EXCEPT !.dataSet[d].last_load =
                              IF d \in VersionedInstances THEN "ver" ELSE @],
          err |-> None, ret |-> h.dataSet[d]._data, trace |-> <<d>>]

\* data_set.save(data)
DataSet_save(h, d, data) ==
    IF IsMemory(d)
    THEN [h |-> [h EXCEPT !.dataSet[d] = MemoryDataSet_save(@, deepcopy(data))],
          err |-> None, ret |-> None, trace |-> <<d>>]
    ELSE [h |-> [h EXCEPT !.dataSet[d]._data = data,
                          !.dataSet[d].last_save =
                              IF d \in VersionedInstances THEN "ver" ELSE @],
          err |-> None, ret |-> None, trace |-> <<d>>]

\* The warning of AbstractDataSet._exists, the check of a class without its own
ExistsNotImplemented == "exists() not implemented. Assuming output does not exist."

\* data_set.exists(): a class without _exists answers False
DataSet_exists(h, d) ==
    IF IsMemory(d) THEN MemoryDataSet_exists(h.dataSet[d])
    ELSE IF d \in UncheckedInstances THEN FALSE
    ELSE h.dataSet[d]._data # _EMPTY

\* What data_set.exists() warns of, None when it does not warn
DataSet_exists_warning(d) ==
    IF d \in UncheckedInstances THEN ExistsNotImplemented ELSE None

\* data_set.release()
DataSet_release(h, d) ==
    IF IsMemory(d)
    THEN [h EXCEPT !.dataSet[d] = MemoryDataSet_release(@)]
    ELSE h

get_last_load_version(h, d) == h.dataSet[d].last_load
get_last_save_version(h, d) == h.dataSet[d].last_save

\* journal.log_catalog(name, operation, version)
log_catalog(h, name, operation, version) ==
    [h EXCEPT !.journalObj =
        Append(@, [name |-> name, operation |-> operation, version |-> version])]

\* What transformer t does when it is entered, beh being what the
\* user-defined one does in this call
Behaviour(t, beh) == IF t = "tu" THEN beh ELSE "call"

----------------------------------------------------------------------------
(* DataCatalog: load, save, exists, release.                               *)

Items(s) == {s[i] : i \in DOMAIN s}

\* reversed(s) that does not reverse
Reverse_forward(s) == s

\* reversed(s)
Reverse(s) == [i \in DOMAIN s |-> s[Len(s) + 1 - i]]

RECURSIVE _wrap(_, _)
\* for transformer in transformers: func = partial(transformer.op, name, func).
\* A callable is the sequence of what it enters, outermost first: wrapping
\* func in a transformer puts the transformer in front of func.
_wrap(func, transformers) ==
    IF transformers = <<>> THEN func
    ELSE _wrap(<<transformers[1]>> \o func, Tail(transformers))

\* the loop over the transformers in the order of the list
_get_transformed_dataset_function_forward(h, self, data_set_name) ==
    LET data_set == Instance(h, self, data_set_name)
        func == <<data_set>>
    IN _wrap(func, h.listObj[TransformerList(h, self, data_set_name)])

\* the callable composed once per name and kept
_get_transformed_dataset_function_cached(h, self, data_set_name) ==
    IF composed[self][data_set_name] # <<>>
    THEN composed[self][data_set_name]
    ELSE LET data_set == Instance(h, self, data_set_name)
             func == <<data_set>>
         IN _wrap(func, Reverse(h.listObj[TransformerList(h, self, data_set_name)]))

_get_transformed_dataset_function(h, self, data_set_name) ==
    LET data_set == Instance(h, self, data_set_name)
        func == <<data_set>>
    IN _wrap(func, Reverse(h.listObj[TransformerList(h, self, data_set_name)]))

RECURSIVE Call(_, _, _, _, _)
\* func(): enter the outermost callable; a transformer that calls through
\* calls the rest of func, the last callable is the data set's operation
Call(h, func, operation, data, beh) ==
    IF Len(func) = 1
    THEN IF operation = "load" THEN DataSet_load(h, func[1])
         ELSE DataSet_save(h, func[1], data)
    ELSE CASE Behaviour(func[1], beh) = "raise" ->
                [h |-> h, err |-> "TransformerError", ret |-> None, trace |-> <<func[1]>>]
           [] Behaviour(func[1], beh) = "skip" ->
                [h |-> h, err |-> None, ret |-> None, trace |-> <<func[1]>>]
           [] OTHER ->
                LET r == Call(h, Tail(func), operation, data, beh)
                IN [r EXCEPT !.trace = <<func[1]>> \o @]

HasTransformerList(h, self, name) ==
    DictHas(h.mapObj[h.catalog[self]._transformers], name)

\* load that asks the data set for its version before it calls the chain
load_version_first(h, self, name, beh) ==
    IF ~Registered(h, self, name)
    THEN Raise(h, "DataSetNotFoundError")
    ELSE IF ~HasTransformerList(h, self, name)
    THEN Raise(h, "KeyError")
    ELSE LET func == _get_transformed_dataset_function(h, self, name)
             version == get_last_load_version(h, Instance(h, self, name))
             result == Call(h, func, "load", None, beh)
         IN IF result.err # None THEN result
            ELSE IF result.h.catalog[self]._journal # None /\ version # None
            THEN [result EXCEPT !.h = log_catalog(@, name, "load", version)]
            ELSE result

\* load that reports every failure of the chain as a DataSetError of its own
load_wrapping(h, self, name, beh) ==
    IF ~Registered(h, self, name)
    THEN Raise(h, "DataSetNotFoundError")
    ELSE IF ~HasTransformerList(h, self, name)
    THEN Raise(h, "KeyError")
    ELSE LET func == _get_transformed_dataset_function(h, self, name)
             result == Call(h, func, "load", None, beh)
             version == get_last_load_version(result.h, Instance(result.h, self, name))
         IN IF result.err # None THEN [result EXCEPT !.err = "DataSetError"]
            ELSE IF result.h.catalog[self]._journal # None /\ version # None
            THEN [result EXCEPT !.h = log_catalog(@, name, "load", version)]
            ELSE result

load(h, self, name, beh) ==
    IF ~Registered(h, self, name)
    THEN Raise(h, "DataSetNotFoundError")
    ELSE IF ~HasTransformerList(h, self, name)
    THEN Raise(h, "KeyError")
    ELSE LET func == _get_transformed_dataset_function(h, self, name)
             result == Call(h, func, "load", None, beh)
             version == get_last_load_version(result.h, Instance(result.h, self, name))
         IN IF result.err # None THEN result
            ELSE IF result.h.catalog[self]._journal # None /\ version # None
            THEN [result EXCEPT !.h = log_catalog(@, name, "load", version)]
            ELSE result

save(h, self, name, data, beh) ==
    IF ~Registered(h, self, name)
    THEN Raise(h, "DataSetNotFoundError")
    ELSE IF ~HasTransformerList(h, self, name)
    THEN Raise(h, "KeyError")
    ELSE LET func == _get_transformed_dataset_function(h, self, name)
             result == Call(h, func, "save", data, beh)
             version == get_last_save_version(result.h, Instance(result.h, self, name))
         IN IF result.err # None THEN result
            ELSE IF result.h.catalog[self]._journal # None /\ version # None
            THEN [result EXCEPT !.h = log_catalog(@, name, "save", version), !.ret = None]
            ELSE [result EXCEPT !.ret = None]

\* Python's True and False
Bool(b) == IF b THEN "True" ELSE "False"

\* exists that asks for the _exists of the data set's own class
exists_own_check(h, self, name) ==
    IF Registered(h, self, name)
    THEN IF Instance(h, self, name) \in UncheckedInstances
         THEN [Raise(h, "AttributeError") EXCEPT !.trace = <<Instance(h, self, name)>>]
         ELSE [h |-> h, err |-> None,
               ret |-> Bool(DataSet_exists(h, Instance(h, self, name))),
               trace |-> <<Instance(h, self, name)>>,
               msg |-> DataSet_exists_warning(Instance(h, self, name))]
    ELSE Raise(h, "DataSetNotFoundError")

exists(h, self, name) ==
    IF Registered(h, self, name)
    THEN [h |-> h, err |-> None,
          ret |-> Bool(DataSet_exists(h, Instance(h, self, name))),
          trace |-> <<Instance(h, self, name)>>,
          msg |-> DataSet_exists_warning(Instance(h, self, name))]
    ELSE Raise(h, "DataSetNotFoundError")

\* release without its check: self._data_sets[name] raises KeyError
release_unchecked(h, self, name) ==
    IF ~Registered(h, self, name)
    THEN Raise(h, "KeyError")
    ELSE [Return(DataSet_release(h, Instance(h, self, name)), None)
            EXCEPT !.trace = <<Instance(h, self, name)>>]

release(h, self, name) ==
    IF ~Registered(h, self, name)
    THEN Raise(h, "DataSetNotFoundError")
    ELSE [Return(DataSet_release(h, Instance(h, self, name)), None)
            EXCEPT !.trace = <<Instance(h, self, name)>>]

----------------------------------------------------------------------------
(* The calls, as actions.  Each leaves in `last` what was called and how   *)
(* it ended.                                                               *)

\* The call's record: operation, catalog, name and arguments, with the
\* exception, the value returned and the callables entered; for a load or
\* save, prior is the callable the load or save before it on that name
\* composed; msg is what the exception or the warning of the call says, about
\* the name the message is formatted with
CallRecord(op, self, name, arg, r) ==
    [op |-> op, self |-> self, name |-> name, arg |-> arg,
     err |-> r.err, ret |-> r.ret, trace |-> r.trace, prior |-> <<>>,
     msg |-> IF "msg" \in DOMAIN r THEN r.msg ELSE None,
     about |-> IF "about" \in DOMAIN r THEN r.about ELSE None]

\* Whether the call is a load or save that composes a callable
Composes(h, op, self, name) ==
    /\ op \in {"load", "save"}
    /\ Registered(h, self, name)
    /\ HasTransformerList(h, self, name)

\* The arguments a call may take; beh is what the user-defined transformer
\* does when this call enters it
NoArg == [data_set |-> None, replace |-> FALSE, items |-> <<>>,
          transformers |-> <<>>, transformer |-> None, names |-> NoNames,
          data |-> None, beh |-> "call", kept |-> FALSE,
          credentials |-> <<>>, load_versions |-> <<>>, save_version |-> None,
          journal |-> None, timestamp |-> None]

Commit(h) ==
    /\ catalog' = h.catalog
    /\ dictObj' = h.dictObj
    /\ mapObj' = h.mapObj
    /\ listObj' = h.listObj
    /\ viewObj' = h.viewObj
    /\ dataSet' = h.dataSet
    /\ nfeed' = h.nfeed
    /\ journalObj' = h.journalObj
    /\ held' = h.held

Called(op, self, name, arg, r) ==
    /\ Commit(r.h)
    /\ last' = [CallRecord(op, self, name, arg, r) EXCEPT
                    !.prior = IF Composes(Heap, op, self, name)
                              THEN composed[self][name] ELSE <<>>]
    /\ replaced' =
          [c \in Catalogs |-> [n \in Names |->
              IF /\ Constructed(Heap, c)
                 /\ Registered(Heap, c, n)
                 /\ Instance(r.h, c, n) # Instance(Heap, c, n)
              THEN Instance(Heap, c, n)
              ELSE replaced[c][n]]]
    /\ composed' =
          IF Composes(Heap, op, self, name)
          THEN [composed EXCEPT ![self][name] =
                    _get_transformed_dataset_function(Heap, self, name)]
          ELSE composed
    /\ budget' = budget - 1

\* What the user-defined transformer does in a call on name, "call" when the
\* call does not enter it
Entered(h, self, name, beh) ==
    IF /\ Registered(h, self, name)
       /\ HasTransformerList(h, self, name)
       /\ "tu" \in Items(h.listObj[TransformerList(h, self, name)])
    THEN beh
    ELSE "call"

\* The number of plain values among a feed dict's items
RECURSIVE PlainValues(_)
PlainValues(items) ==
    IF items = <<>> THEN 0
    ELSE (IF items[1].v \in Instances THEN 0 ELSE 1) + PlainValues(Tail(items))

\* catalog = DataCatalog(data_sets, feed_dict, transformers,
\* default_transformers, journal).  A constructor that raises leaves no
\* catalog, and nothing refers to what it had built.
New(c, data_sets, feed_dict, transformers, default_transformers, journal, order) ==
    /\ budget > 0
    /\ ~Constructed(Heap, c)
    /\ nfeed + PlainValues(feed_dict) <= MaxFeed
    /\ LET r == __init__(Heap, c, data_sets, feed_dict, transformers,
                         default_transformers, journal, order)
       IN Called("__init__", c, None,
                 [NoArg EXCEPT !.items = data_sets, !.transformers = transformers],
                 IF r.err = None THEN r ELSE [r EXCEPT !.h = Heap])

ShallowCopy(c, new_, order) ==
    /\ budget > 0
    /\ Constructed(Heap, c)
    /\ ~Constructed(Heap, new_)
    /\ LET r == shallow_copy(Heap, c, new_, order)
       IN Called("shallow_copy", c, None, NoArg,
                 IF r.err = None THEN [r EXCEPT !.ret = new_] ELSE [r EXCEPT !.h = Heap])

Add(c, data_set_name, data_set, replace) ==
    /\ budget > 0
    /\ Constructed(Heap, c)
    /\ Called("add", c, data_set_name,
              [NoArg EXCEPT !.data_set = data_set, !.replace = replace],
              add(Heap, c, data_set_name, data_set, replace))

AddAll(c, data_sets, replace) ==
    /\ budget > 0
    /\ Constructed(Heap, c)
    /\ Called("add_all", c, None,
              [NoArg EXCEPT !.items = data_sets, !.replace = replace],
              add_all(Heap, c, data_sets, replace))

AddFeedDict(c, feed_dict, replace) ==
    /\ budget > 0
    /\ Constructed(Heap, c)
    /\ nfeed + PlainValues(feed_dict) <= MaxFeed
    /\ Called("add_feed_dict", c, None,
              [NoArg EXCEPT !.items = feed_dict, !.replace = replace],
              add_feed_dict(Heap, c, feed_dict, replace))

AddTransformer(c, transformer, data_set_names) ==
    /\ budget > 0
    /\ Constructed(Heap, c)
    /\ Called("add_transformer", c, None,
              [NoArg EXCEPT !.transformer = transformer, !.names = data_set_names],
              add_transformer(Heap, c, transformer, data_set_names))

Load(c, name, beh) ==
    /\ budget > 0
    /\ Constructed(Heap, c)
    /\ Called("load", c, name, [NoArg EXCEPT !.beh = Entered(Heap, c, name, beh)],
              load(Heap, c, name, beh))

Save(c, name, data, beh) ==
    /\ budget > 0
    /\ Constructed(Heap, c)
    /\ Called("save", c, name,
              [NoArg EXCEPT !.data = data, !.beh = Entered(Heap, c, name, beh)],
              save(Heap, c, name, data, beh))

Exists(c, name) ==
    /\ budget > 0
    /\ Constructed(Heap, c)
    /\ Called("exists", c, name, NoArg, exists(Heap, c, name))

Release(c, name) ==
    /\ budget > 0
    /\ Constructed(Heap, c)
    /\ Called("release", c, name, NoArg, release(Heap, c, name))

\* catalog = DataCatalog.from_config(catalog, credentials, load_versions,
\* save_version, journal).  When it raises there is no catalog, and nothing
\* refers to the data sets it had constructed.
FromConfig(c, config, credentials, load_versions, save_version, journal, timestamp) ==
    /\ budget > 0
    /\ ~Constructed(Heap, c)
    /\ NConfig(Heap) + Len(config) <= Len(ConfigInstances)
    /\ LET r == from_config(Heap, c, config, credentials, load_versions, save_version,
                            journal, timestamp, <<"a", "b">>)
       IN Called("from_config", c, None,
                 [NoArg EXCEPT !.items = config, !.credentials = credentials,
                               !.load_versions = load_versions,
                               !.save_version = save_version,
                               !.journal = journal, !.timestamp = timestamp],
                 IF r.err = None THEN r ELSE [r EXCEPT !.h = Heap])

\* view = catalog.datasets, the caller keeping the reference
GetDatasets(c) ==
    /\ budget > 0
    /\ Constructed(Heap, c)
    /\ Called("datasets", c, None, NoArg,
              Return([Heap EXCEPT !.held = catalog[c].datasets], catalog[c].datasets))

\* setattr(view, key, value), on the view the caller keeps (kept) or on the
\* one the catalog has now
SetAttr(c, kept, key, value) ==
    /\ budget > 0
    /\ Constructed(Heap, c)
    /\ kept => held # NoView
    /\ Called("__setattr__", c, key, [NoArg EXCEPT !.data_set = value, !.kept = kept],
              __setattr__(Heap, IF kept THEN held ELSE catalog[c].datasets, key, value))

----------------------------------------------------------------------------
(* The specification: every call, on two catalogs.                         *)

Item(key, value) == [k |-> key, v |-> value]

\* Before any catalog is constructed: the caller's data sets exist, m1
\* holding nothing, m2 holding "x", and nothing is stored for p1.
EmptyHeap ==
    [catalog |-> [c \in Catalogs |-> NoCatalog],
     dictObj |-> [c \in Catalogs |-> <<>>],
     mapObj |-> [c \in Catalogs |-> <<>>],
     listObj |-> [l \in ListRefs |-> <<>>],
     viewObj |-> [v \in ViewRefs |-> [n \in Names |-> None]],
     dataSet |-> [d \in Instances |->
                    [_data |-> IF d = "m2" THEN "x" ELSE _EMPTY,
                     last_load |-> None, last_save |-> None,
                     config |-> NoConfig]],
     nfeed |-> 0,
     journalObj |-> <<>>,
     held |-> NoView]

\* The heap is h
Holds(h) ==
    /\ catalog = h.catalog
    /\ dictObj = h.dictObj
    /\ mapObj = h.mapObj
    /\ listObj = h.listObj
    /\ viewObj = h.viewObj
    /\ dataSet = h.dataSet
    /\ nfeed = h.nfeed
    /\ journalObj = h.journalObj
    /\ held = h.held

Init ==
    /\ Holds(EmptyHeap)
    /\ last = CallRecord("none", None, None, NoArg, Return(EmptyHeap, None))
    /\ replaced = [c \in Catalogs |-> [n \in Names |-> None]]
    /\ composed = [c \in Catalogs |-> [n \in Names |-> <<>>]]
    /\ budget = MaxCalls

Orders == {<<"a", "b">>, <<"b", "a">>}

DataSetsArgs == {<<>>, <<Item("a", "m1")>>, <<Item("a", "m1"), Item("b", "p1")>>}
FeedDictArgs == {<<>>, <<Item("b", "x")>>}
TransformersArgs == {<<>>, <<Item("a", <<"t1">>)>>}
DefaultsArgs == {<<>>, <<"t2">>}
JournalArgs == {None, TheJournal}
AddAllArgs == {<<Item("a", "m2"), Item("b", "p1")>>, <<Item("b", "m2"), Item("a", "m2")>>}
AddFeedArgs == {<<Item("a", "y")>>, <<Item("b", "m2"), Item("a", "x")>>}
NamesArgs == {NoNames, OneName("a"), SomeNames(<<"a", "b">>), SomeNames(<<"b", "a">>)}
TransformerArgs == {"t1", "tu", NotATransformer}

Next ==
    \/ \E ds \in DataSetsArgs, fd \in FeedDictArgs, tr \in TransformersArgs,
          df \in DefaultsArgs, j \in JournalArgs, o \in Orders :
          New("c1", ds, fd, tr, df, j, o)
    \/ \E o \in Orders : ShallowCopy("c1", "c2", o)
    \/ \E c \in Catalogs, n \in Names, d \in UserInstances, rp \in BOOLEAN :
          Add(c, n, d, rp)
    \/ \E c \in Catalogs, ds \in AddAllArgs, rp \in BOOLEAN : AddAll(c, ds, rp)
    \/ \E c \in Catalogs, fd \in AddFeedArgs, rp \in BOOLEAN : AddFeedDict(c, fd, rp)
    \/ \E c \in Catalogs, t \in TransformerArgs, ns \in NamesArgs :
          AddTransformer(c, t, ns)
    \/ \E c \in Catalogs, n \in Names, b \in Behaviours : Load(c, n, b)
    \/ \E c \in Catalogs, n \in Names, v \in Values, b \in Behaviours : Save(c, n, v, b)
    \/ \E c \in Catalogs, n \in Names : Exists(c, n)
    \/ \E c \in Catalogs, n \in Names : Release(c, n)

Spec == Init /\ [][Next]_vars

----------------------------------------------------------------------------
(* The specification of one catalog in use: c1 has been constructed over   *)
(* one or two data sets and a journal, and is then called.                 *)

InitOne ==
    \E ds \in DataSetsArgs \ {<<>>} :
        LET r == __init__(EmptyHeap, "c1", ds, <<>>, <<>>, <<>>, TheJournal, <<"a", "b">>)
        IN /\ Holds(r.h)
           /\ last = CallRecord("__init__", "c1", None, [NoArg EXCEPT !.items = ds], r)
           /\ replaced = [c \in Catalogs |-> [n \in Names |-> None]]
           /\ composed = [c \in Catalogs |-> [n \in Names |-> <<>>]]
           /\ budget = MaxCalls

NamesArgsOne == {NoNames, OneName("a"), SomeNames(<<"a", "b">>)}

NextOne ==
    \/ \E n \in Names, d \in MemoryInstances, rp \in BOOLEAN : Add("c1", n, d, rp)
    \/ \E t \in Transformers, ns \in NamesArgsOne : AddTransformer("c1", t, ns)
    \/ \E n \in Names, b \in Behaviours : Load("c1", n, b)
    \/ \E n \in Names, v \in Values, b \in Behaviours : Save("c1", n, v, b)
    \/ \E n \in Names : Exists("c1", n)
    \/ \E n \in Names : Release("c1", n)

SpecOne == InitOne /\ [][NextOne]_vars

----------------------------------------------------------------------------
(* The specification of a catalog and its shallow copy: c1 has been        *)
(* constructed as above, c2 is what c1.shallow_copy() returns, and both    *)
(* are called.                                                             *)

NamesArgsTwo == {NoNames, OneName("a")}
TransformerArgsTwo == {"t1", "tu"}

NextTwo ==
    \/ ShallowCopy("c1", "c2", <<"a", "b">>)
    \/ \E c \in Catalogs, n \in Names, d \in MemoryInstances, rp \in BOOLEAN :
          Add(c, n, d, rp)
    \/ \E c \in Catalogs, t \in TransformerArgsTwo, ns \in NamesArgsTwo :
          AddTransformer(c, t, ns)
    \/ \E c \in Catalogs, n \in Names, b \in Behaviours : Load(c, n, b)
    \/ \E c \in Catalogs, n \in Names, v \in Values, b \in Behaviours : Save(c, n, v, b)
    \/ \E c \in Catalogs, n \in Names : Release(c, n)

SpecTwo == InitOne /\ [][NextTwo]_vars

----------------------------------------------------------------------------
(* The specification of a catalog and a caller that keeps a reference to   *)
(* its frozen view: c1 has been constructed as above, and may be given a   *)
(* data set of a class without an existence check.                         *)

NextView ==
    \/ GetDatasets("c1")
    \/ \E kept \in BOOLEAN, n \in Names, d \in MemoryInstances : SetAttr("c1", kept, n, d)
    \/ \E n \in Names, d \in MemoryInstances \cup UncheckedInstances, rp \in BOOLEAN :
          Add("c1", n, d, rp)
    \/ \E ds \in AddAllArgs, rp \in BOOLEAN : AddAll("c1", ds, rp)
    \/ \E fd \in AddFeedArgs, rp \in BOOLEAN : AddFeedDict("c1", fd, rp)
    \/ \E n \in Names : Exists("c1", n)

SpecView == InitOne /\ [][NextView]_vars

----------------------------------------------------------------------------
(* The specification of catalogs made from configuration.                  *)

\* a ds_config: its type and its credentials, None for a key it has not
Config(type, credentials) == [type |-> type, credentials |-> credentials]

ConfigArgs ==
    {<<>>,
     <<Item("a", Config("T", None))>>,
     <<Item("a", Config("T", "cred")), Item("b", Config("T", None))>>,
     <<Item("b", Config("T", None)), Item("a", Config(None, None))>>,
     <<Item("a", Config("T", "nocred")), Item("b", Config(None, None))>>,
     <<Item("a", Config(None, "nocred"))>>,
     <<Item("a", Config("T", "cred")), Item("b", Config("T", "nocred"))>>}
CredentialsArgs == {<<>>, <<Item("cred", "secret")>>}
LoadVersionsArgs == {<<>>, <<Item("a", "lv")>>, <<Item("b", "lv"), Item("a", "lv2")>>}
SaveVersionArgs == {None, "sv"}
Timestamps == {"ts1", "ts2"}

NextConfig ==
    \/ \E cf \in ConfigArgs, cr \in CredentialsArgs, lv \in LoadVersionsArgs,
          sv \in SaveVersionArgs, j \in JournalArgs, ts \in Timestamps :
          FromConfig("c1", cf, cr, lv, sv, j, ts)
    \/ \E n \in Names : Exists("c1", n)

SpecConfig == Init /\ [][NextConfig]_vars

----------------------------------------------------------------------------
(* The claims.                                                             *)

DispatchOps == {"load", "save", "exists", "release"}

\* C1: load, save, exists and release with a name that is not registered
\* raise DataSetNotFoundError and change nothing: not the registry, the
\* transformer map, the default transformers, any data set or the journal.
C1_UnregisteredNameRaises ==
    [][ (/\ last'.op \in DispatchOps
         /\ ~Registered(Heap, last'.self, last'.name))
        => (/\ last'.err = "DataSetNotFoundError"
            /\ UNCHANGED heapvars) ]_vars

\* a call on an unregistered name, in a catalog that has a registered one
C1_Witness ==
    /\ last.op \in DispatchOps
    /\ last.err = "DataSetNotFoundError"
    /\ ~Registered(Heap, last.self, last.name)
    /\ \E n \in Names : Registered(Heap, last.self, n)

\* C2: add without replace on a registered name raises
\* DataSetAlreadyExistsError and leaves the registered instance, the
\* transformer lists, the rest of the registry and the frozen view as they were.
C2_FailedAddChangesNothing ==
    [][ (/\ last'.op = "add"
         /\ Registered(Heap, last'.self, last'.name)
         /\ ~last'.arg.replace)
        => (/\ last'.err = "DataSetAlreadyExistsError"
            /\ UNCHANGED heapvars) ]_vars

\* a refused add of another instance than the registered one
C2_Witness ==
    /\ last.op = "add"
    /\ last.err = "DataSetAlreadyExistsError"
    /\ Instance(Heap, last.self, last.name) # last.arg.data_set

\* self._transformers[name], the list's items
Sequence(h, self, name) == h.listObj[TransformerList(h, self, name)]

\* C3: add with replace=True on a registered name succeeds and registers the
\* new instance, no other name changes its instance, and every load, save,
\* exists and release reaches the instance registered under its name at
\* that moment and touches no other data set.
C3_ReplaceRedirects ==
    [][ /\ (/\ last'.op = "add"
            /\ last'.arg.replace
            /\ Registered(Heap, last'.self, last'.name))
           => (/\ last'.err = None
               /\ Instance(Heap', last'.self, last'.name) = last'.arg.data_set
               /\ \A n \in Names \ {last'.name} :
                     /\ Registered(Heap', last'.self, n) = Registered(Heap, last'.self, n)
                     /\ Instance(Heap', last'.self, n) = Instance(Heap, last'.self, n))
        /\ (/\ last'.op \in DispatchOps
            /\ Registered(Heap, last'.self, last'.name))
           => (/\ Items(last'.trace) \cap Instances
                     \subseteq {Instance(Heap, last'.self, last'.name)}
               /\ (last'.op \in {"exists", "release"} \/ last'.arg.beh = "call")
                     => Instance(Heap, last'.self, last'.name) \in Items(last'.trace)
               /\ \A d \in Instances \ {Instance(Heap, last'.self, last'.name)} :
                     dataSet'[d] = dataSet[d]
               /\ dictObj' = dictObj) ]_vars

\* a load served by the instance that displaced another under the name
C3_Witness ==
    /\ last.op = "load"
    /\ last.err = None
    /\ replaced[last.self][last.name] # None
    /\ replaced[last.self][last.name] # Instance(Heap, last.self, last.name)
    /\ last.trace = <<Instance(Heap, last.self, last.name)>>

\* The names given transformers and the names given data sets in the last
\* call, a constructor
GivenTransformers == DictKeySet(last.arg.transformers)
GivenDataSets == DictKeySet(last.arg.items)

\* C4: in every catalog the names with a transformer list are the registered
\* names; a constructor given transformers for a name that is not among its
\* data sets raises and constructs nothing.
C4_TransformerNamesAreRegisteredNames ==
    /\ \A c \in Catalogs :
          Constructed(Heap, c) =>
             DictKeySet(mapObj[catalog[c]._transformers])
                = DictKeySet(dictObj[catalog[c]._data_sets])
    /\ (last.op = "__init__" /\ GivenTransformers \ GivenDataSets # {})
          => (last.err = "DataSetNotFoundError" /\ ~Constructed(Heap, last.self))

\* a catalog with two names after an add_all or add_feed_dict that failed
C4_Witness ==
    /\ last.op \in {"add_all", "add_feed_dict"}
    /\ last.err = "DataSetAlreadyExistsError"
    /\ Cardinality(DictKeySet(dictObj[catalog[last.self]._data_sets])) = 2

\* C5: when every transformer entered calls through, a load or save on a
\* name whose list is [t1, ..., tk] enters t1, then t2, ..., then tk, then
\* the data set's operation, each once, load and save alike.
C5_FirstAddedIsEnteredFirst ==
    [][ (/\ last'.op \in {"load", "save"}
         /\ Registered(Heap, last'.self, last'.name)
         /\ last'.arg.beh = "call")
        => last'.trace = Sequence(Heap, last'.self, last'.name)
                            \o <<Instance(Heap, last'.self, last'.name)>> ]_vars

\* a save through two different transformers
C5_Witness ==
    /\ last.op = "save"
    /\ last.err = None
    /\ Len(last.trace) = 3
    /\ last.trace[1] # last.trace[2]
    /\ last.trace[3] \in Instances

\* The callable composed for name n of catalog c, outermost first, the data
\* set's own operation last
Chain(c, n) == _get_transformed_dataset_function(Heap, c, n)

\* C6, as amended: in the callable composed for a name whose list is
\* [t1, ..., tk], t1 is the outermost interceptor and tk the innermost, the
\* one that wraps the data set's operation.
C6_FirstAddedIsOutermost ==
    \A c \in Catalogs : Constructed(Heap, c) =>
       \A n \in Names : Registered(Heap, c, n) =>
          LET seq == Sequence(Heap, c, n)
          IN /\ Len(Chain(c, n)) = Len(seq) + 1
             /\ \A i \in DOMAIN seq : Chain(c, n)[i] = seq[i]
             /\ Chain(c, n)[Len(seq) + 1] = Instance(Heap, c, n)

\* a name with two different transformers
C6_Witness ==
    \E c \in Catalogs : Constructed(Heap, c) /\
       \E n \in Names :
          /\ Registered(Heap, c, n)
          /\ Len(Sequence(Heap, c, n)) = 2
          /\ Sequence(Heap, c, n)[1] # Sequence(Heap, c, n)[2]

\* C6, as claimed: t1 is the innermost interceptor (it wraps the data set's
\* operation) and tk the outermost.
C6_FirstAddedIsInnermost ==
    \A c \in Catalogs : Constructed(Heap, c) =>
       \A n \in Names : (Registered(Heap, c, n) /\ Sequence(Heap, c, n) # <<>>) =>
          LET seq == Sequence(Heap, c, n)
          IN /\ Chain(c, n)[Len(seq)] = seq[1]
             /\ Chain(c, n)[1] = seq[Len(seq)]

\* What a call enters of a chain: the chain up to and including the first
\* transformer that does not call through
Enters(chain, beh) ==
    LET stops == {i \in 1..(Len(chain) - 1) : Behaviour(chain[i], beh) # "call"}
    IN IF stops = {} THEN chain
       ELSE SubSeq(chain, 1, CHOOSE i \in stops : \A j \in stops : i <= j)

\* C7: every load and save runs the chain of the name's transformer list
\* and registered instance as they are when it is called; what an earlier
\* call composed is not used again.
C7_ChainIsComposedPerCall ==
    [][ (/\ last'.op \in {"load", "save"}
         /\ Registered(Heap, last'.self, last'.name))
        => last'.trace =
              Enters(Sequence(Heap, last'.self, last'.name)
                        \o <<Instance(Heap, last'.self, last'.name)>>,
                     last'.arg.beh) ]_vars

\* a load that enters a transformer added since the call before it on the name
C7_Witness ==
    /\ last.op = "load"
    /\ last.err = None
    /\ last.prior # <<>>
    /\ Len(last.trace) = Len(last.prior) + 1
    /\ last.trace[Len(last.trace)] \in Instances

Count(t, seq) == Cardinality({i \in DOMAIN seq : seq[i] = t})

\* The default transformers of catalog c, the list's items
Defaults(h, c) == h.listObj[h.catalog[c]._default_transformers]

\* C8: add gives the name a list of its own holding the default transformers
\* of that moment; add_transformer(t, None) then puts t once more in the list
\* of every registered name, and add_transformer by name changes neither the
\* defaults nor the list of a name it is not given.
C8_AddCopiesTheDefaults ==
    [][ /\ (last'.op = "add" /\ last'.err = None)
           => (/\ Sequence(Heap', last'.self, last'.name) = Defaults(Heap, last'.self)
               /\ TransformerList(Heap', last'.self, last'.name)
                     # catalog'[last'.self]._default_transformers
               /\ \A n \in Names \ {last'.name} :
                     Registered(Heap', last'.self, n)
                     => TransformerList(Heap', last'.self, n)
                           # TransformerList(Heap', last'.self, last'.name))
        /\ (/\ last'.op = "add_transformer"
            /\ last'.err = None
            /\ last'.arg.names.is = "None")
           => \A n \in Names :
                 Registered(Heap, last'.self, n)
                 => Count(last'.arg.transformer, Sequence(Heap', last'.self, n))
                       = Count(last'.arg.transformer, Sequence(Heap, last'.self, n)) + 1
        /\ (/\ last'.op = "add_transformer"
            /\ last'.arg.names.is # "None")
           => (/\ Defaults(Heap', last'.self) = Defaults(Heap, last'.self)
               /\ \A n \in Names \ Items(last'.arg.names.names) :
                     Registered(Heap, last'.self, n)
                     => Sequence(Heap', last'.self, n) = Sequence(Heap, last'.self, n))
      ]_vars

\* add_transformer(t, None) has put t in an empty list: t is there once
C8_Witness ==
    /\ last.op = "add_transformer"
    /\ last.err = None
    /\ last.arg.names.is = "None"
    /\ \E n \in Names :
          /\ Registered(Heap, last.self, n)
          /\ Sequence(Heap, last.self, n) = <<last.arg.transformer>>

IsPrefix(s, t) == Len(s) <= Len(t) /\ SubSeq(t, 1, Len(s)) = s

\* Name n of catalog c is registered by the step, or given another instance
Assigned(c, n) ==
    /\ Registered(Heap', c, n)
    /\ \/ ~Registered(Heap, c, n)
       \/ Instance(Heap', c, n) # Instance(Heap, c, n)

\* C9: add_transformer(t, None) appends t to the defaults and to the list of
\* every registered name; the defaults only ever grow at the end, and a name
\* registered by add, add_all or add_feed_dict gets the defaults, so t at
\* the place it has there.
C9_DefaultReachesLaterDataSets ==
    [][ /\ (/\ last'.op = "add_transformer"
            /\ last'.err = None
            /\ last'.arg.names.is = "None")
           => (/\ Defaults(Heap', last'.self)
                     = Append(Defaults(Heap, last'.self), last'.arg.transformer)
               /\ \A n \in Names :
                     Registered(Heap, last'.self, n)
                     => Sequence(Heap', last'.self, n)
                           = Append(Sequence(Heap, last'.self, n), last'.arg.transformer))
        /\ \A c \in Catalogs :
              Constructed(Heap, c) => IsPrefix(Defaults(Heap, c), Defaults(Heap', c))
        /\ (last'.op \in {"add", "add_all", "add_feed_dict"})
           => \A n \in Names :
                 Assigned(last'.self, n)
                 => Sequence(Heap', last'.self, n) = Defaults(Heap', last'.self)
      ]_vars

\* add_all has registered two names after t1 was made a default
C9_Witness ==
    /\ last.op = "add_all"
    /\ last.err = None
    /\ Defaults(Heap, last.self) = <<"t1">>
    /\ \A n \in Names :
          /\ Registered(Heap, last.self, n)
          /\ Sequence(Heap, last.self, n) = <<"t1">>

\* The lists of the names a call of add_transformer is given
ListsNamed(c, names) == {TransformerList(Heap, c, names[i]) : i \in DOMAIN names}

\* C10: add_transformer(t, names) with registered names appends t to the
\* lists of those names and changes no other list, the defaults included; a
\* data set added later has only the transformers that are defaults then.
C10_NamedTransformerStaysLocal ==
    [][ /\ (/\ last'.op = "add_transformer"
            /\ last'.err = None
            /\ last'.arg.names.is # "None")
           => \A l \in ListRefs :
                 listObj'[l] =
                    IF l \in ListsNamed(last'.self, last'.arg.names.names)
                    THEN Append(listObj[l], last'.arg.transformer)
                    ELSE listObj[l]
        /\ (last'.op = "add" /\ last'.err = None)
           => Items(Sequence(Heap', last'.self, last'.name))
                 \subseteq Items(Defaults(Heap, last'.self))
      ]_vars

\* t was added to one name by name: the other name and the defaults lack it
C10_Witness ==
    /\ last.op = "add_transformer"
    /\ last.err = None
    /\ last.arg.names.is = "str"
    /\ last.arg.transformer \notin Items(Defaults(Heap, last.self))
    /\ \E n \in Names :
          /\ Registered(Heap, last.self, n)
          /\ last.arg.transformer \notin Items(Sequence(Heap, last.self, n))

\* The version the data set registered under the name of the call reports,
\* once the call is over, for the side of the call
Reported ==
    LET d == Instance(Heap, last'.self, last'.name)
    IN IF last'.op = "load" THEN get_last_load_version(Heap', d)
       ELSE get_last_save_version(Heap', d)

JournalEntry(name, operation, version) ==
    [name |-> name, operation |-> operation, version |-> version]

\* C11: a load or save that returns appends the one entry (name, operation,
\* version) to the journal when the catalog has a journal and the data set,
\* asked after the chain has returned, reports a version for that side, and
\* appends nothing when the catalog has no journal or the version is None.
C11_ReturnAppendsOneEntry ==
    [][ (/\ last'.op \in {"load", "save"}
         /\ last'.err = None)
        => journalObj' =
              IF catalog[last'.self]._journal # None /\ Reported # None
              THEN Append(journalObj, JournalEntry(last'.name, last'.op, Reported))
              ELSE journalObj ]_vars

\* the first load of a versioned data set, entered in the journal after the
\* entry of the save before it
C11_Witness ==
    /\ last.op = "load"
    /\ last.err = None
    /\ Len(journalObj) = 2
    /\ journalObj[1] = JournalEntry(last.name, "save", "ver")
    /\ journalObj[2] = JournalEntry(last.name, "load", "ver")

\* C12: a load or save whose chain does not reach the data set's operation
\* appends no journal entry.
C12_NoEntryWithoutTheOperation ==
    [][ (/\ last'.op \in {"load", "save"}
         /\ last'.err = None
         /\ Instance(Heap, last'.self, last'.name) \notin Items(last'.trace))
        => journalObj' = journalObj ]_vars

\* C13: a load or save in which a transformer or the data set's operation
\* fails raises that failure, appends nothing to the journal and leaves the
\* catalogs, the registries, the transformer lists and the views as they were.
C13_FailurePassesThrough ==
    [][ (/\ last'.op \in {"load", "save"}
         /\ Registered(Heap, last'.self, last'.name))
        => LET d == Instance(Heap, last'.self, last'.name)
           IN /\ last'.arg.beh = "raise"
                    => (/\ last'.err = "TransformerError"
                        /\ d \notin Items(last'.trace))
              /\ (/\ last'.arg.beh = "call"
                  /\ last'.op = "load"
                  /\ dataSet[d]._data = _EMPTY)
                    => (/\ last'.err = "DataSetError"
                        /\ d \in Items(last'.trace))
              /\ last'.err # None
                    => (/\ journalObj' = journalObj
                        /\ UNCHANGED <<catalog, dictObj, mapObj, listObj, viewObj>>) ]_vars

\* a save of a versioned data set in a catalog with a journal, refused by a
\* transformer
C13_Witness ==
    /\ last.op = "save"
    /\ last.err = "TransformerError"
    /\ Instance(Heap, last.self, last.name) \in VersionedInstances
    /\ catalog[last.self]._journal # None

\* C14: for a name registered with a MemoryDataSet and an empty transformer
\* list, a load that follows a save returns the value saved, that of the
\* latest save whatever was saved or held before it.
C14_LoadReturnsTheLastSave ==
    [][ (/\ last.op = "save"
         /\ last.err = None
         /\ last'.op = "load"
         /\ last'.self = last.self
         /\ last'.name = last.name
         /\ IsMemory(Instance(Heap, last.self, last.name))
         /\ Sequence(Heap, last.self, last.name) = <<>>)
        => (/\ last'.err = None
            /\ last'.ret = last.arg.data) ]_vars

\* a load that returns "y" from the data set that held "x" to begin with
C14_Witness ==
    /\ last.op = "load"
    /\ last.err = None
    /\ last.ret = "y"
    /\ Instance(Heap, last.self, last.name) = "m2"
    /\ Sequence(Heap, last.self, last.name) = <<>>

\* The MemoryDataSet instances add_feed_dict has constructed so far
Fed(h) == {FeedName[i] : i \in 1..h.nfeed}

\* C15: add_feed_dict registers under each name the value itself when the
\* value is a data set, and otherwise a MemoryDataSet constructed for it that
\* holds the value, which a load of the name returns; it raises
\* DataSetAlreadyExistsError exactly when replace is false and one of its
\* names is registered.
C15_FeedDictRegistersAsIs ==
    [][ (last'.op = "add_feed_dict")
        => LET items == last'.arg.items
               self == last'.self
           IN /\ last'.err =
                    IF /\ ~last'.arg.replace
                       /\ \E i \in DOMAIN items : Registered(Heap, self, items[i].k)
                    THEN "DataSetAlreadyExistsError"
                    ELSE None
              /\ last'.err = None
                    => \A i \in DOMAIN items :
                          LET d == Instance(Heap', self, items[i].k)
                          IN IF items[i].v \in Instances
                             THEN d = items[i].v
                             ELSE /\ d \in Fed(Heap') \ Fed(Heap)
                                  /\ dataSet'[d]._data = items[i].v
                                  /\ load(Heap', self, items[i].k, "call").err = None
                                  /\ load(Heap', self, items[i].k, "call").ret = items[i].v
      ]_vars

\* a feed dict of a data set and a plain value, both registered
C15_Witness ==
    /\ last.op = "add_feed_dict"
    /\ last.err = None
    /\ Len(last.arg.items) = 2
    /\ Instance(Heap, last.self, "b") = "m2"
    /\ Instance(Heap, last.self, "a") \in FeedInstances
    /\ dataSet[Instance(Heap, last.self, "a")]._data = "x"

\* The catalogs other than c that have been constructed
Others(c) == {o \in Catalogs \ {c} : Constructed(Heap, o)}

\* C16: the catalog shallow_copy returns has the names of the original, in
\* its order, bound to the same instances, in a dict and a view of its own;
\* what a save or release through one catalog does to an instance is what the
\* next load through the other catalog finds; and add, add_all and
\* add_feed_dict through one catalog leave the other's registry, list() and
\* frozen view as they were.
C16_CopySharesInstancesNotRegistry ==
    [][ /\ (last'.op = "shallow_copy")
           => (/\ last'.err = None
               /\ list(Heap', last'.ret) = list(Heap, last'.self)
               /\ \A n \in Names :
                     Instance(Heap', last'.ret, n) = Instance(Heap, last'.self, n)
               /\ catalog'[last'.ret]._data_sets # catalog'[last'.self]._data_sets
               /\ catalog'[last'.ret].datasets # catalog'[last'.self].datasets
               /\ catalog'[last'.self] = catalog[last'.self]
               /\ dictObj'[catalog[last'.self]._data_sets]
                     = dictObj[catalog[last'.self]._data_sets])
        /\ (/\ last.op \in {"save", "release"}
            /\ last.err = None
            /\ Instance(Heap, last.self, last.name) \in Items(last.trace)
            /\ last'.op = "load"
            /\ last'.self # last.self
            /\ Instance(Heap, last'.self, last'.name) = Instance(Heap, last.self, last.name)
            /\ last'.arg.beh = "call")
           => IF last.op = "save"
              THEN last'.err = None /\ last'.ret = last.arg.data
              ELSE IsMemory(Instance(Heap, last.self, last.name))
                      => last'.err = "DataSetError"
        /\ (last'.op \in {"add", "add_all", "add_feed_dict"})
           => \A o \in Others(last'.self) :
                 /\ catalog'[o] = catalog[o]
                 /\ dictObj'[catalog[o]._data_sets] = dictObj[catalog[o]._data_sets]
                 /\ list(Heap', o) = list(Heap, o)
                 /\ viewObj'[catalog[o].datasets] = viewObj[catalog[o].datasets]
      ]_vars

\* a load through the copy that returns what was saved through the original
\* after the copy was taken
C16_Witness ==
    /\ last.op = "load"
    /\ last.self = "c2"
    /\ last.err = None
    /\ last.ret = "y"
    /\ Instance(Heap, "c2", last.name) = "m1"
    /\ Instance(Heap, "c1", last.name) = "m1"
    /\ composed["c1"][last.name] # <<>>
    /\ composed["c2"][last.name] # <<>>
    /\ budget = MaxCalls - 3

\* The names whose lists the last call of add_transformer was to append to
Affected ==
    IF last'.arg.names.is = "None"
    THEN DictKeySet(dictObj[catalog[last'.self]._data_sets])
    ELSE Items(last'.arg.names.names)

\* C17, as amended: the catalog shallow_copy returns has the journal of the
\* original and, in a dict and lists of its own, the transformer lists and
\* the default transformers the original has when the copy is taken;
\* add_transformer through one catalog changes no list of the other.
C17_CopyHasItsOwnTransformers ==
    [][ /\ (last'.op = "shallow_copy")
           => (/\ \A n \in Names :
                     Registered(Heap, last'.self, n)
                     => (/\ Sequence(Heap', last'.ret, n) = Sequence(Heap, last'.self, n)
                         /\ TransformerList(Heap', last'.ret, n)
                               # TransformerList(Heap', last'.self, n))
               /\ Defaults(Heap', last'.ret) = Defaults(Heap, last'.self)
               /\ catalog'[last'.ret]._transformers # catalog'[last'.self]._transformers
               /\ catalog'[last'.ret]._default_transformers
                     # catalog'[last'.self]._default_transformers
               /\ catalog'[last'.ret]._journal = catalog[last'.self]._journal)
        /\ (last'.op = "add_transformer")
           => \A o \in Others(last'.self) :
                 /\ Defaults(Heap', o) = Defaults(Heap, o)
                 /\ \A n \in Names :
                       Registered(Heap, o, n)
                       => Sequence(Heap', o, n) = Sequence(Heap, o, n)
        /\ \A c \in Catalogs :
              Constructed(Heap, c) => catalog'[c]._journal = catalog[c]._journal
      ]_vars

\* a transformer added through the original after the copy was taken: the
\* original's list has it, the copy's list has not
C17_Witness ==
    /\ last.op = "add_transformer"
    /\ last.self = "c1"
    /\ last.err = None
    /\ Constructed(Heap, "c2")
    /\ catalog["c2"]._journal = catalog["c1"]._journal
    /\ Registered(Heap, "c2", "a")
    /\ last.arg.transformer \in Items(Sequence(Heap, "c1", "a"))
    /\ last.arg.transformer \notin Items(Sequence(Heap, "c2", "a"))

\* C17, as claimed: a transformer added through one of the two catalogs is
\* in the chain the other composes for the same name.
C17_CopySharesTransformers ==
    [][ (/\ last'.op = "add_transformer"
         /\ last'.err = None)
        => \A o \in Others(last'.self) :
              \A n \in Affected :
                 Registered(Heap, o, n)
                 => last'.arg.transformer
                       \in Items(_get_transformed_dataset_function(Heap', o, n))
      ]_vars

NoDuplicates(s) == \A i, j \in DOMAIN s : s[i] = s[j] => i = j

\* The keys of the items, each once, in the order in which they first occur
FirstKeys(items) == DictKeys(DictFromSeq(items))

\* The keys of the items that are not in the list old, in their order
NewKeys(items, old) == SelectSeq(FirstKeys(items), LAMBDA k : k \notin Items(old))

\* C18: list() holds every registered name once and no other name, in the
\* order of registration: the names of a constructor's data sets come in
\* their order, a call that registers names puts the new ones at the end in
\* the order in which it adds them, and a name already registered, replaced
\* or not, stays where it is.
C18_ListIsRegistrationOrder ==
    [][ /\ \A c \in Catalogs :
              Constructed(Heap', c)
              => (/\ NoDuplicates(list(Heap', c))
                  /\ Items(list(Heap', c)) = {n \in Names : Registered(Heap', c, n)}
                  /\ Constructed(Heap, c) => IsPrefix(list(Heap, c), list(Heap', c)))
        /\ (last'.op = "__init__" /\ last'.err = None)
           => IsPrefix(FirstKeys(last'.arg.items), list(Heap', last'.self))
        /\ (last'.op = "add" /\ last'.err = None)
           => list(Heap', last'.self) =
                 list(Heap, last'.self)
                    \o NewKeys(<<Item(last'.name, last'.arg.data_set)>>, list(Heap, last'.self))
        /\ (last'.op \in {"add_all", "add_feed_dict"} /\ last'.err = None)
           => list(Heap', last'.self) =
                 list(Heap, last'.self) \o NewKeys(last'.arg.items, list(Heap, last'.self))
      ]_vars

\* "b" was registered before "a" and then replaced: it is still first
C18_Witness ==
    /\ last.op = "add"
    /\ last.err = None
    /\ last.arg.replace
    /\ last.name = "b"
    /\ replaced[last.self]["b"] # None
    /\ list(Heap, last.self) = <<"b", "a">>

\* The frozen view of catalog c, name -> the attribute of that name
View(h, c) == h.viewObj[h.catalog[c].datasets]

\* The entries of the items whose name is registered
Collisions(h, c, items) == {i \in DOMAIN items : Registered(h, c, items[i].k)}

\* C19: add_all without replace, given a mapping whose k-th entry is the
\* first with a registered name, raises DataSetAlreadyExistsError; the
\* entries before the k-th are registered, each with the default
\* transformers and in the frozen view, and the names of the k-th and of the
\* later entries are as they were.
C19_AddAllStopsAtTheCollision ==
    [][ (/\ last'.op = "add_all"
         /\ ~last'.arg.replace)
        => LET items == last'.arg.items
               self == last'.self
               hit == Collisions(Heap, self, items)
           IN IF hit = {}
              THEN last'.err = None
              ELSE LET k == CHOOSE i \in hit : \A j \in hit : i <= j
                   IN /\ last'.err = "DataSetAlreadyExistsError"
                      /\ \A i \in 1..(k - 1) :
                            /\ Registered(Heap', self, items[i].k)
                            /\ Instance(Heap', self, items[i].k) = items[i].v
                            /\ Sequence(Heap', self, items[i].k) = Defaults(Heap, self)
                            /\ View(Heap', self)[items[i].k] = items[i].v
                      /\ \A i \in k..Len(items) :
                            /\ Registered(Heap', self, items[i].k)
                                  = Registered(Heap, self, items[i].k)
                            /\ Instance(Heap', self, items[i].k)
                                  = Instance(Heap, self, items[i].k)
                            /\ View(Heap', self)[items[i].k]
                                  = Instance(Heap, self, items[i].k)
                            /\ Registered(Heap, self, items[i].k)
                                  => Sequence(Heap', self, items[i].k)
                                        = Sequence(Heap, self, items[i].k)
      ]_vars

\* add_all of "b" and "a" to a catalog that has "a": "b" is registered, "a"
\* has the instance it had
C19_Witness ==
    /\ last.op = "add_all"
    /\ last.err = "DataSetAlreadyExistsError"
    /\ budget = MaxCalls - 2
    /\ last.arg.items = <<Item("b", "m2"), Item("a", "m2")>>
    /\ Instance(Heap, last.self, "b") = "m2"
    /\ View(Heap, last.self)["b"] = "m2"
    /\ Instance(Heap, last.self, "a") = "m1"

\* C20: the frozen view of every catalog has the registered names, each
\* bound to the instance registered under it, and no other name, whatever
\* the calls made and however they ended.
C20_ViewIsTheRegistry ==
    \A c \in Catalogs :
       Constructed(Heap, c)
       => \A n \in Names :
             View(Heap, c)[n] = IF Registered(Heap, c, n) THEN Instance(Heap, c, n) ELSE None

\* a catalog constructed with a feed dict, after an add that replaced the
\* instance of another name
C20_Witness ==
    /\ last.op = "add"
    /\ last.err = None
    /\ last.arg.replace
    /\ \E n \in Names \ {last.name} :
          /\ Instance(Heap, last.self, n) \in FeedInstances
          /\ View(Heap, last.self)[n] = Instance(Heap, last.self, n)
    /\ replaced[last.self][last.name] # None
    /\ View(Heap, last.self)[last.name] = last.arg.data_set

\* C25: add_transformer with an object that is not a transformer raises
\* TypeError and changes nothing, whether the names are None, a string or a
\* list, registered or not.
C25_NotATransformerChangesNothing ==
    [][ (/\ last'.op = "add_transformer"
         /\ last'.arg.transformer \notin Transformers)
        => (/\ last'.err = "TypeError"
            /\ UNCHANGED heapvars) ]_vars

\* the refusal, with names None, in a catalog that has a name and a default
C25_Witness ==
    /\ last.op = "add_transformer"
    /\ last.err = "TypeError"
    /\ last.arg.names.is = "None"
    /\ Defaults(Heap, last.self) # <<>>
    /\ \E n \in Names : Registered(Heap, last.self, n)

\* The first of the names that is not registered, 0 when all are
FirstUnregistered(h, c, names) ==
    LET bad == {i \in DOMAIN names : ~Registered(h, c, names[i])}
    IN IF bad = {} THEN 0 ELSE CHOOSE i \in bad : \A j \in bad : i <= j

\* C28: add_transformer(t, names) with a name that is not registered raises
\* DataSetNotFoundError; t has then been appended to the lists of the names
\* before the first unregistered one, and no other list, the default
\* transformers included, has changed.
C28_UnregisteredNameStopsTheLoop ==
    [][ (/\ last'.op = "add_transformer"
         /\ last'.arg.transformer \in Transformers
         /\ last'.arg.names.is # "None"
         /\ FirstUnregistered(Heap, last'.self, last'.arg.names.names) # 0)
        => LET names == last'.arg.names.names
               k == FirstUnregistered(Heap, last'.self, names)
               before == {TransformerList(Heap, last'.self, names[i]) : i \in 1..(k - 1)}
           IN /\ last'.err = "DataSetNotFoundError"
              /\ \A l \in ListRefs :
                    listObj'[l] = IF l \in before
                                  THEN Append(listObj[l], last'.arg.transformer)
                                  ELSE listObj[l]
              /\ UNCHANGED <<catalog, dictObj, mapObj, viewObj, dataSet, journalObj>> ]_vars

\* names "a", "b" given to a catalog that has "a" only: the list of "a" has t
C28_Witness ==
    /\ last.op = "add_transformer"
    /\ last.err = "DataSetNotFoundError"
    /\ last.arg.names = SomeNames(<<"a", "b">>)
    /\ Registered(Heap, last.self, "a")
    /\ ~Registered(Heap, last.self, "b")
    /\ Sequence(Heap, last.self, "a") = <<last.arg.transformer>>
    /\ Defaults(Heap, last.self) = <<>>

\* C29: add with replace=True of a registered name gives the name a list
\* equal to the default transformers of that moment, and the load or save
\* of the name that follows enters those and no transformer the name had
\* been given by name.
C29_ReplaceResetsTheTransformers ==
    [][ /\ (/\ last'.op = "add"
            /\ last'.arg.replace
            /\ Registered(Heap, last'.self, last'.name))
           => (/\ last'.err = None
               /\ Sequence(Heap', last'.self, last'.name) = Defaults(Heap, last'.self)
               /\ Defaults(Heap', last'.self) = Defaults(Heap, last'.self))
        /\ (/\ last.op = "add"
            /\ last.arg.replace
            /\ last.err = None
            /\ last'.op \in {"load", "save"}
            /\ last'.self = last.self
            /\ last'.name = last.name)
           => last'.trace =
                 Enters(Defaults(Heap, last.self) \o <<last.arg.data_set>>, last'.arg.beh)
      ]_vars

\* a replacement under a name whose last load entered t1, given by name: the
\* name's list is without t1
C29_Witness ==
    /\ last.op = "add"
    /\ last.arg.replace
    /\ last.err = None
    /\ replaced[last.self][last.name] # None
    /\ "t1" \in Items(composed[last.self][last.name])
    /\ "t1" \notin Items(Sequence(Heap, last.self, last.name))

\* C24: release of a registered name empties a MemoryDataSet and changes
\* neither the registry, the transformer lists nor the view; an empty
\* MemoryDataSet does not exist and fails to load with DataSetError, and it
\* stays empty until a save reaches it, which leaves it holding the data saved.
C24_ReleaseKeepsTheName ==
    [][ /\ (/\ last'.op = "release"
            /\ Registered(Heap, last'.self, last'.name))
           => LET d == Instance(Heap, last'.self, last'.name)
              IN /\ last'.err = None
                 /\ UNCHANGED <<catalog, dictObj, mapObj, listObj, viewObj, journalObj>>
                 /\ list(Heap', last'.self) = list(Heap, last'.self)
                 /\ Instance(Heap', last'.self, last'.name) = d
                 /\ IsMemory(d) => dataSet'[d]._data = _EMPTY
                 /\ \A e \in Instances \ {d} : dataSet'[e] = dataSet[e]
        /\ (/\ last'.op \in {"exists", "load"}
            /\ Registered(Heap, last'.self, last'.name)
            /\ IsMemory(Instance(Heap, last'.self, last'.name))
            /\ dataSet[Instance(Heap, last'.self, last'.name)]._data = _EMPTY)
           => IF last'.op = "exists"
              THEN last'.err = None /\ last'.ret = "False"
              ELSE last'.arg.beh = "call" => last'.err = "DataSetError"
        /\ \A d \in MemoryInstances :
              (dataSet[d]._data = _EMPTY /\ dataSet'[d]._data # _EMPTY)
              => (/\ last'.op = "save"
                  /\ last'.err = None
                  /\ d \in Items(last'.trace)
                  /\ dataSet'[d]._data = last'.arg.data)
      ]_vars

\* the data set that held "x" to begin with, released under a name that
\* has a transformer
C24_Witness ==
    /\ last.op = "release"
    /\ last.err = None
    /\ Instance(Heap, last.self, last.name) = "m2"
    /\ dataSet["m2"]._data = _EMPTY
    /\ Sequence(Heap, last.self, last.name) # <<>>

\* C30: no call removes or changes an entry of the journal; a call appends
\* at most its own entry, at the end, and a load or save that returns, on a
\* data set that reports a version, appends it whichever of the catalogs
\* sharing the journal it goes through.
C30_JournalIsAppendOnly ==
    [][ /\ IsPrefix(journalObj, journalObj')
        /\ journalObj' # journalObj
           => (/\ last'.op \in {"load", "save"}
               /\ last'.err = None
               /\ journalObj' =
                     Append(journalObj, JournalEntry(last'.name, last'.op, Reported)))
        /\ (/\ last'.op \in {"load", "save"}
            /\ last'.err = None
            /\ Reported # None)
           => Len(journalObj') = Len(journalObj) + 1
      ]_vars

\* an entry from the original followed by an entry from the copy
C30_Witness ==
    /\ last.op = "load"
    /\ last.self = "c2"
    /\ last.err = None
    /\ composed["c1"][last.name] # <<>>
    /\ budget = MaxCalls - 3
    /\ journalObj = <<JournalEntry(last.name, "save", "ver"),
                       JournalEntry(last.name, "load", "ver")>>

\* C21: the view a caller keeps has the attributes it had when the caller
\* got it, whatever the catalog is given afterwards; a call that changes the
\* registry gives the catalog another view object.
C21_KeptViewIsASnapshot ==
    [][ (held # NoView)
        => (/\ held' = held => viewObj'[held] = viewObj[held]
            /\ (/\ last'.op \in {"add", "add_all", "add_feed_dict"}
                /\ dictObj' # dictObj)
               => (/\ catalog'[last'.self].datasets # held
                   /\ \A n \in Names :
                         View(Heap', last'.self)[n] = Instance(Heap', last'.self, n))) ]_vars

\* the view kept lacks a name, or has another instance, than the registry
C21_Witness ==
    /\ held # NoView
    /\ held # catalog["c1"].datasets
    /\ \E n \in Names :
          /\ viewObj[held][n] = "m1"
          /\ Instance(Heap, "c1", n) = "m2"
    /\ \E n \in Names :
          /\ viewObj[held][n] = None
          /\ Registered(Heap, "c1", n)

C23_ExistsAlwaysAnswers ==
    [][ (/\ last'.op = "exists"
         /\ Registered(Heap, last'.self, last'.name))
        => (/\ last'.err = None
            /\ last'.ret \in {"True", "False"}
            /\ UNCHANGED heapvars
            /\ IF Instance(Heap, last'.self, last'.name) \in UncheckedInstances
               THEN last'.ret = "False" /\ last'.msg = ExistsNotImplemented
               ELSE last'.msg = None) ]_vars

\* exists on the data set without a check
C23_Witness ==
    /\ last.op = "exists"
    /\ last.err = None
    /\ Instance(Heap, last.self, last.name) \in UncheckedInstances
    /\ last.ret = "False"
    /\ last.msg = ExistsNotImplemented

----------------------------------------------------------------------------
(* Construction from configuration.                                        *)

\* an entry from_config stops at: no type, or credentials that the
\* credentials mapping does not have
Offending(entry, credentials) ==
    \/ entry.v.type = None
    \/ /\ entry.v.credentials # None
       /\ ~DictHas(credentials, entry.v.credentials)

\* the entries from_config stops at, by their places in catalog.items()
OffendingEntries(conf, credentials) ==
    {i \in DOMAIN conf : Offending(conf[i], credentials)}

FirstOffending(conf, credentials) ==
    CHOOSE i \in OffendingEntries(conf, credentials) :
        \A j \in OffendingEntries(conf, credentials) : i <= j

\* C26 (as amended): from_config returns a catalog of every entry or raises
\* and produces none.  It raises for the first offending entry in the order
\* of the configuration: a DataSetError naming the data set when the entry
\* has no type, otherwise a KeyError naming the credentials the mapping does
\* not have; the valid entries before it leave no catalog behind.
C26_FirstOffendingEntryRaises ==
    [][ last'.op = "from_config" =>
          LET conf == last'.arg.items
              bad == OffendingEntries(conf, last'.arg.credentials)
              i == FirstOffending(conf, last'.arg.credentials)
          IN IF bad = {}
             THEN /\ last'.err = None
                  /\ Constructed(Heap', last'.self)
                  /\ list(Heap', last'.self) = DictKeys(conf)
             ELSE /\ IF conf[i].v.type = None
                     THEN /\ last'.err = "DataSetError"
                          /\ last'.msg = TypeIsMissing
                          /\ last'.about = conf[i].k
                     ELSE /\ last'.err = "KeyError"
                          /\ last'.msg = UnableToFindCredentials
                          /\ last'.about = conf[i].v.credentials
                  /\ ~Constructed(Heap', last'.self)
                  /\ UNCHANGED heapvars ]_vars

\* a valid entry came first, the second has no type: DataSetError, no catalog
C26_Witness ==
    /\ last.op = "from_config"
    /\ Len(last.arg.items) = 2
    /\ ~Offending(last.arg.items[1], last.arg.credentials)
    /\ last.arg.items[2].v.type = None
    /\ last.err = "DataSetError"
    /\ last.about = last.arg.items[2].k
    /\ ~Constructed(Heap, last.self)

\* C26 as stated: an entry without a type always gives a DataSetError naming
\* such an entry, and a reference to absent credentials always gives a
\* KeyError naming such a reference.
C26_EachFaultHasItsOwnError ==
    [][ last'.op = "from_config" =>
          LET conf == last'.arg.items
              untyped == {i \in DOMAIN conf : conf[i].v.type = None}
              dangling == {i \in DOMAIN conf :
                              /\ conf[i].v.credentials # None
                              /\ ~DictHas(last'.arg.credentials,
                                          conf[i].v.credentials)}
          IN /\ untyped # {} =>
                  /\ last'.err = "DataSetError"
                  /\ \E i \in untyped : last'.about = conf[i].k
             /\ dangling # {} =>
                  /\ last'.err = "KeyError"
                  /\ \E i \in dangling : last'.about = conf[i].v.credentials ]_vars

\* C27: every data set that from_config constructs is given the same save
\* version, which is the save_version argument when there is one, otherwise
\* the run_id of the journal when there is a journal, otherwise the one
\* timestamp generated by the call; and it is given load_versions' entry for
\* its own name, None when there is none.
C27_OneSaveVersionForAll ==
    [][ (last'.op = "from_config" /\ last'.err = None) =>
          LET a == last'.arg
              version == IF a.save_version # None THEN a.save_version
                         ELSE IF a.journal # None THEN run_id(a.journal)
                         ELSE a.timestamp
          IN \A i \in DOMAIN a.items :
                LET ds_name == a.items[i].k
                    given == Heap'.dataSet[Instance(Heap', last'.self, ds_name)].config
                IN /\ given.name = ds_name
                   /\ given.save_version = version
                   /\ given.load_version = DictGet(a.load_versions, ds_name) ]_vars

\* two data sets constructed with a journal and no save_version: both have
\* the run_id; one has a load version, the other has none
C27_Witness ==
    /\ last.op = "from_config"
    /\ last.err = None
    /\ last.arg.save_version = None
    /\ last.arg.journal # None
    /\ Len(last.arg.items) = 2
    /\ Heap.dataSet[Instance(Heap, last.self, "a")].config.save_version = "run"
    /\ Heap.dataSet[Instance(Heap, last.self, "b")].config.save_version = "run"
    /\ Heap.dataSet[Instance(Heap, last.self, "a")].config.load_version = "lv"
    /\ Heap.dataSet[Instance(Heap, last.self, "b")].config.load_version = None

====
